---- MODULE Spec2Model ----
(***************************************************************************)
(* GRPO fine-tuning loop of run_grpo_evodiff.py: the training orchestrator *)
(* (main), the scoring bridge (get_reward) with the files it writes and    *)
(* reads back, the advantage normalisation, the likelihood evaluator       *)
(* (calculate_nll) and the loss (grpo_loss).                               *)
(*                                                                         *)
(* Numbers. Rewards are integers in reward units. Standard deviations and  *)
(* advantages are fixed-point values; tensor elements are records          *)
(* [k |-> "fin" | "nan" | "inf", v |-> Int] so that an undefined quotient  *)
(* is a value the model can hold. Float rounding of the tensor library is  *)
(* not modelled.                                                           *)
(***************************************************************************)
EXTENDS Integers, Sequences, FiniteSets, TLC

VARIABLES
    pc,             \* position of main / get_reward
    epoch,          \* main: epoch of the outer loop (0-based, line 130)
    step,           \* main: step of the inner loop (0-based, line 138)
    policy_params,  \* number of optimizer steps applied to the policy parameters
    policy_mode,    \* "train" | "eval" : policy_model.train() / .eval()
    ref_mode,       \* "eval" : ref_model.eval() (line 112)
    gen_seqs,       \* main: the batch sampled in this step (its batch number; 0: none)
    i,              \* get_reward: loop index (line 39)
    rewards_list,   \* get_reward: the local list `rewards`
    fasta,          \* file system: input artifacts, by path
    jobs,           \* file system: predictor output directories, by path
    rewards,        \* main: the reward tensor and the batch it was computed for
    advantages,     \* main: the advantage tensor and its batch
    policy_nll,     \* main: batch and parameters the policy NLL was computed with
    ref_nll,        \* main: batch the reference NLL was computed with
    grads,          \* gradient buffers of the policy: "none" | "zero" | batch number
    checkpoints,    \* file system: checkpoint directories written, <<dir, params>>
    hung,           \* the external predictor never returns
    fresh,          \* history: job directories the predictor wrote in this get_reward call
    used,           \* history: the artifact paths of each (epoch, step, index) scored
    calls,          \* history: predictor invocations of this get_reward call, in order
    sequences,      \* one step in numbers: the sequences of the batch
    log_ratios,     \* one step in numbers: policy minus reference log-likelihood
    loss            \* one step in numbers: the terms of grpo_loss

vars == <<pc, epoch, step, policy_params, policy_mode, ref_mode, gen_seqs, i,
          rewards_list, fasta, jobs, rewards, advantages, policy_nll, ref_nll,
          grads, checkpoints, hung, fresh, used, calls, sequences, log_ratios,
          loss>>

\* The run (Spec) follows which batch and which parameters every tensor was
\* computed from; the numbers of one step are followed in StepSpec.
numbers == <<sequences, log_ratios, loss>>

----------------------------------------------------------------------------
(* Configuration (CONFIG, lines 17-28), scaled down for model checking.    *)

rl_epochs == 2
steps_per_epoch == 2
batch_size == 2

\* the sentinel reward of a failed scoring (line 64): -100.0
Sentinel == -100

\* Scores the external predictor can report: <<iptm, plddt>>, iptm in reward
\* units and plddt on the 0..100 scale in steps of ten.
Scores == {<<1, 80>>, <<0, 50>>}

----------------------------------------------------------------------------
(* Paths (lines 41, 46, 124, 178).                                         *)

\* main passes the same output_root to every get_reward call (lines 124, 149)
OutputRoot(e, s) == <<"af2_multimer_outputs">>

FastaPath(root, idx) == root \o <<"seq", idx>>
JobDir(root, idx) == root \o <<"job", idx>>

CheckpointDirConstant(e) == <<"evodiff_grpo_checkpoint_epoch", 1>>
CheckpointDir(e) == <<"evodiff_grpo_checkpoint_epoch", e + 1>>

Epochs == 0 .. (rl_epochs - 1)
Steps == 0 .. (steps_per_epoch - 1)
Indices == 0 .. (batch_size - 1)

AllRoots == {OutputRoot(e, s) : e \in Epochs, s \in Steps}
AllFastaPaths == {FastaPath(r, k) : r \in AllRoots, k \in Indices}
AllJobDirs == {JobDir(r, k) : r \in AllRoots, k \in Indices}

\* the number of the batch sampled in step s of epoch e (1-based)
BatchNo(e, s) == e * steps_per_epoch + s + 1

----------------------------------------------------------------------------
(* File contents.                                                          *)

NoFiles == [kind |-> "absent", iptm |-> 0, plddt |-> 0]
CorruptFiles == [kind |-> "corrupt", iptm |-> 0, plddt |-> 0]
GoodFiles(sc) == [kind |-> "good", iptm |-> sc[1], plddt |-> sc[2]]

\* reward = iptm + 0.1 * avg_plddt (line 59), in reward units
RewardOf(iptm, plddt) == iptm + (plddt \div 10)

\* lines 62-64: the per-sequence handler appends the sentinel and the loop goes on
CatchNarrow(list) == [pc |-> "Aborted", list |-> list]
CatchScoringError(list) == [pc |-> "Scoring", list |-> Append(list, Sentinel)]

----------------------------------------------------------------------------
(* Tensor arithmetic of the advantage normalisation (lines 152-153).       *)

Fin(x) == [k |-> "fin", v |-> x]
NaN == [k |-> "nan", v |-> 0]
Inf(sign) == [k |-> "inf", v |-> sign]

Abs(x) == IF x < 0 THEN -x ELSE x
Sign(x) == IF x < 0 THEN -1 ELSE IF x > 0 THEN 1 ELSE 0

RECURSIVE SumSeq(_)
SumSeq(s) == IF s = <<>> THEN 0 ELSE Head(s) + SumSeq(Tail(s))

\* floor of the square root, by bisection on lo..hi; the midpoint and the
\* argument are bound as values (singleton sets) so that no step of the
\* bisection computes them again
RECURSIVE SqrtIn(_, _, _)
SqrtIn(n, lo, hi) ==
    IF lo >= hi THEN lo
    ELSE CHOOSE root \in {IF mid * mid <= n THEN SqrtIn(n, mid, hi)
                                           ELSE SqrtIn(n, lo, mid - 1) :
                              mid \in {(lo + hi + 1) \div 2}} : TRUE
ISqrt(n) == CHOOSE root \in {SqrtIn(m, 0, 46340) : m \in {n}} : TRUE

\* a / b rounded to the nearest integer, b > 0
RoundDiv(a, b) == Sign(a) * ((2 * Abs(a) + b) \div (2 * b))

\* N times the deviation of element k from the batch mean: N*r[k] - sum(r)
DevN(r, k) == Len(r) * r[k] - SumSeq(r)

\* N^2 times the sum of squared deviations from the mean
SumSqN(r) == SumSeq([k \in 1 .. Len(r) |-> DevN(r, k) * DevN(r, k)])

\* the working precision: the largest power of ten K with q * K * K a 32-bit integer
Precision(q) ==
    IF q <= 2000 THEN 1000
    ELSE IF q <= 200000 THEN 100
    ELSE IF q <= 20000000 THEN 10
    ELSE 1

\* rewards.mean(), times 100
Mean100(r) == RoundDiv(100 * SumSeq(r), Len(r))

\* rewards.std(): torch's default is the unbiased estimator (divisor N - 1);
\* a single element has no unbiased estimate and torch returns nan.
\* The value is N * K * std for K = Precision(SumSqN(r)).
StdPopulation(r) ==
    LET K == Precision(SumSqN(r))
    IN Fin(ISqrt((SumSqN(r) * K * K) \div Len(r)))
Std(r) ==
    IF Len(r) < 2 THEN NaN
    ELSE LET K == Precision(SumSqN(r))
         IN Fin(ISqrt((SumSqN(r) * K * K) \div (Len(r) - 1)))

\* epsilon_std = 1e-8 (line 27), in units of 1e-8
epsilon_std == 1

\* std + epsilon_std: epsilon is below the working precision and is kept apart
NoEps(sd) == [std |-> sd, eps |-> 0]
AddEps(sd) == [std |-> sd, eps |-> epsilon_std]

\* num / (std + eps) times 100, num = N * K * deviation, den.std = N * K * std.
\* With std > 0 epsilon changes the quotient by less than the working
\* precision; with std = 0 the divisor is epsilon alone: 0 / eps = 0, and a
\* nonzero numerator over 1e-8 is finite but beyond the model's range ("big");
\* with no epsilon the quotient is 0/0 = nan or x/0 = inf.
Big(sign) == [k |-> "big", v |-> sign]
Quotient100(num, den) ==
    IF den.std.k = "nan" THEN NaN
    ELSE IF den.std.v > 0 THEN Fin(RoundDiv(100 * num, den.std.v))
    ELSE IF den.eps > 0 THEN (IF num = 0 THEN Fin(0) ELSE Big(Sign(num)))
    ELSE IF num = 0 THEN NaN
    ELSE Inf(Sign(num))

\* advantages = (rewards - rewards.mean()) / (rewards.std() + epsilon_std), times 100
\* (the batch sum, the precision and the divisor are computed once and bound
\* as values, as the tensor expression computes them once)
Advantages(r) ==
    CHOOSE a \in {[k \in 1 .. Len(x) |-> Quotient100((Len(x) * x[k] - total) * K, den)] :
                     x \in {r},
                     total \in {SumSeq(r)},
                     K \in {Precision(SumSqN(r))},
                     den \in {AddEps(Std(r))}} : TRUE

----------------------------------------------------------------------------
(* The run: main (lines 97-181) and get_reward (lines 35-66).              *)

NoTensor == [batch |-> 0, v |-> <<>>]
NoNll == [batch |-> 0, params |-> 0, mode |-> "none", drop |-> 0, v |-> <<>>]
NoLoss == [policy_objective |-> NaN, kl_penalty |-> 0]
NoGrads == [state |-> "none", rewards |-> 0, advantages |-> 0,
            policy_nll |-> 0, ref_nll |-> 0]

\* lines 101-124: both models loaded from the same pretrained weights, the
\* reference frozen and in eval mode; nothing sampled, scored or saved yet.
Init ==
    /\ pc = "Sampling"
    /\ epoch = 0
    /\ step = 0
    /\ policy_params = 0
    /\ policy_mode = "train"
    /\ ref_mode = "eval"
    /\ gen_seqs = 0
    /\ i = 0
    /\ rewards_list = <<>>
    /\ fasta = [f \in AllFastaPaths |-> "absent"]
    /\ jobs = [d \in AllJobDirs |-> NoFiles]
    /\ rewards = NoTensor
    /\ advantages = NoTensor
    /\ policy_nll = NoNll
    /\ ref_nll = NoNll
    /\ grads = NoGrads
    /\ checkpoints = {}
    /\ hung = FALSE
    /\ fresh = {}
    /\ used = {}
    /\ calls = <<>>
    /\ sequences = <<>>
    /\ log_ratios = <<>>
    /\ loss = NoLoss

\* an uncaught exception leaves main: the process ends where it stands
Abort ==
    /\ pc' = "Aborted"
    /\ UNCHANGED <<epoch, step, policy_params, gen_seqs, i, rewards_list, fasta,
                   jobs, rewards, advantages, policy_nll, ref_nll, grads,
                   checkpoints, hung, fresh, used, calls>>

\* lines 139-147: policy_model.eval(); generate_oaardm(...) under no_grad
Sample ==
    /\ pc = "Sampling"
    /\ UNCHANGED numbers
    /\ policy_mode' = "eval"
    /\ ref_mode' = ref_mode
    /\ \/ /\ gen_seqs' = BatchNo(epoch, step)
          /\ pc' = "GetReward"
          /\ UNCHANGED <<epoch, step, policy_params, i, rewards_list, fasta, jobs,
                         rewards, advantages, policy_nll, ref_nll, grads,
                         checkpoints, hung, fresh, used, calls>>
       \/ Abort

\* lines 36-37: rewards = []; os.makedirs(output_root, exist_ok=True), which is
\* outside the per-sequence try
GetRewardEnter ==
    /\ pc = "GetReward"
    /\ UNCHANGED numbers
    /\ UNCHANGED <<policy_mode, ref_mode>>
    /\ \/ /\ rewards_list' = <<>>
          /\ i' = 0
          /\ fresh' = {}
          /\ calls' = <<>>
          /\ pc' = "Scoring"
          /\ UNCHANGED <<epoch, step, policy_params, gen_seqs, fasta, jobs, rewards,
                         advantages, policy_nll, ref_nll, grads, checkpoints, hung,
                         used>>
       \/ Abort

\* the loop index after one iteration of `for i, binder_seq in enumerate(...)`
StuckIndex(k) == k
NextIndex(k) == k + 1

\* lines 39-48: one iteration up to the predictor call. Writing the FASTA file
\* or making the job directory may raise; the handler (62-64) takes over.
ScoreWrite ==
    /\ pc = "Scoring"
    /\ UNCHANGED numbers
    /\ i < batch_size
    /\ UNCHANGED <<policy_mode, ref_mode>>
    /\ LET root == OutputRoot(epoch, step)
           fp == FastaPath(root, i)
           jd == JobDir(root, i)
       IN /\ used' = used \cup {[e |-> epoch, s |-> step, k |-> i,
                                  fasta |-> fp, job |-> jd]}
          /\ \/ /\ pc' = CatchScoringError(rewards_list).pc
                /\ rewards_list' = CatchScoringError(rewards_list).list
                /\ i' = NextIndex(i)
                /\ UNCHANGED <<fasta, calls>>
             \/ /\ fasta' = [fasta EXCEPT ![fp] = "written"]
                /\ calls' = Append(calls, i)
                /\ pc' = "Predictor"
                /\ UNCHANGED <<rewards_list, i>>
    /\ UNCHANGED <<epoch, step, policy_params, gen_seqs, jobs, rewards, advantages,
                   policy_nll, ref_nll, grads, checkpoints, hung, fresh>>

\* what the external predictor leaves in its output directory: nothing (it
\* failed; os.system reports that in a return value nobody reads), files that
\* do not parse, or a ranking and a result
PredictorOutcomes == {NoFiles, CorruptFiles} \cup {GoodFiles(sc) : sc \in Scores}

\* lines 48-64: af2_predict_fn returns; ranking_debug.json and result_*.pkl are
\* read from job_dir, whoever wrote them; a missing or unparsable file raises
PredictorReturns ==
    /\ pc = "Predictor"
    /\ UNCHANGED numbers
    /\ ~hung
    /\ UNCHANGED <<policy_mode, ref_mode>>
    /\ LET jd == JobDir(OutputRoot(epoch, step), i)
       IN \E out \in PredictorOutcomes :
            /\ jobs' = IF out = NoFiles THEN jobs ELSE [jobs EXCEPT ![jd] = out]
            /\ fresh' = IF out = NoFiles THEN fresh ELSE fresh \cup {jd}
            /\ IF jobs'[jd].kind = "good"
               THEN /\ rewards_list' = Append(rewards_list,
                                              RewardOf(jobs'[jd].iptm, jobs'[jd].plddt))
                    /\ pc' = "Scoring"
               ELSE /\ rewards_list' = CatchScoringError(rewards_list).list
                    /\ pc' = CatchScoringError(rewards_list).pc
            /\ i' = NextIndex(i)
    /\ UNCHANGED <<epoch, step, policy_params, gen_seqs, fasta, rewards, advantages,
                   policy_nll, ref_nll, grads, checkpoints, hung, used, calls>>

\* line 48: os.system blocks until the predictor ends; nothing bounds the wait
PredictorHangs ==
    /\ pc = "Predictor"
    /\ UNCHANGED numbers
    /\ ~hung
    /\ hung' = TRUE
    /\ UNCHANGED <<pc, epoch, step, policy_params, policy_mode, ref_mode, gen_seqs,
                   i, rewards_list, fasta, jobs, rewards, advantages, policy_nll,
                   ref_nll, grads, checkpoints, fresh, used, calls>>

\* lines 66, 149-150: the list becomes the reward tensor of this step's batch
ReturnRewards ==
    /\ pc = "Scoring"
    /\ UNCHANGED numbers
    /\ i >= batch_size
    /\ rewards' = [batch |-> gen_seqs, v |-> rewards_list]
    /\ pc' = "Advantage"
    /\ UNCHANGED <<epoch, step, policy_params, policy_mode, ref_mode, gen_seqs, i,
                   rewards_list, fasta, jobs, advantages, policy_nll, ref_nll, grads,
                   checkpoints, hung, fresh, used, calls>>

\* lines 152-153
ComputeAdvantages ==
    /\ pc = "Advantage"
    /\ UNCHANGED numbers
    /\ advantages' = [batch |-> rewards.batch, v |-> Advantages(rewards.v)]
    /\ pc' = "PolicyNll"
    /\ UNCHANGED <<epoch, step, policy_params, policy_mode, ref_mode, gen_seqs, i,
                   rewards_list, fasta, jobs, rewards, policy_nll, ref_nll, grads,
                   checkpoints, hung, fresh, used, calls>>

\* lines 155-156: policy_model.train(); policy_nll = calculate_nll(policy_model, ...)
PolicyNll ==
    /\ pc = "PolicyNll"
    /\ UNCHANGED numbers
    /\ policy_mode' = "train"
    /\ ref_mode' = ref_mode
    /\ \/ /\ policy_nll' = [batch |-> gen_seqs, params |-> policy_params,
                             mode |-> "train", drop |-> 0, v |-> <<>>]
          /\ pc' = "RefNll"
          /\ UNCHANGED <<epoch, step, policy_params, gen_seqs, i, rewards_list,
                         fasta, jobs, rewards, advantages, ref_nll, grads,
                         checkpoints, hung, fresh, used, calls>>
       \/ Abort

\* lines 158-159: ref_nll = calculate_nll(ref_model, ...) under no_grad
RefNllStale ==
    /\ pc = "RefNll"
    /\ UNCHANGED numbers
    /\ UNCHANGED <<policy_mode, ref_mode>>
    /\ \/ /\ ref_nll' = IF ref_nll.batch = 0
                         THEN [batch |-> gen_seqs, params |-> 0, mode |-> ref_mode, drop |-> 0,
                                v |-> <<>>]
                         ELSE ref_nll
          /\ pc' = "ZeroGrad"
          /\ UNCHANGED <<epoch, step, policy_params, gen_seqs, i, rewards_list,
                         fasta, jobs, rewards, advantages, policy_nll, grads,
                         checkpoints, hung, fresh, used, calls>>
       \/ Abort
RefNll ==
    /\ pc = "RefNll"
    /\ UNCHANGED numbers
    /\ UNCHANGED <<policy_mode, ref_mode>>
    /\ \/ /\ ref_nll' = [batch |-> gen_seqs, params |-> 0, mode |-> ref_mode, drop |-> 0,
                                v |-> <<>>]
          /\ pc' = "ZeroGrad"
          /\ UNCHANGED <<epoch, step, policy_params, gen_seqs, i, rewards_list,
                         fasta, jobs, rewards, advantages, policy_nll, grads,
                         checkpoints, hung, fresh, used, calls>>
       \/ Abort

\* line 165: optimizer.zero_grad() (lines 161-163 only rename the two NLLs)
ZeroGrad ==
    /\ pc = "ZeroGrad"
    /\ UNCHANGED numbers
    /\ grads' = [NoGrads EXCEPT !.state = "zero"]
    /\ pc' = "Backward"
    /\ UNCHANGED <<epoch, step, policy_params, policy_mode, ref_mode, gen_seqs, i,
                   rewards_list, fasta, jobs, rewards, advantages, policy_nll,
                   ref_nll, checkpoints, hung, fresh, used, calls>>

\* lines 166-167: loss = grpo_loss(log_ratios, advantages, kl_beta); loss.backward()
Backward ==
    /\ pc = "Backward"
    /\ UNCHANGED numbers
    /\ UNCHANGED <<policy_mode, ref_mode>>
    /\ \/ /\ grads' = [state |-> "grad", rewards |-> rewards.batch,
                        advantages |-> advantages.batch,
                        policy_nll |-> policy_nll.batch, ref_nll |-> ref_nll.batch]
          /\ pc' = "OptimizerStep"
          /\ UNCHANGED <<epoch, step, policy_params, gen_seqs, i, rewards_list,
                         fasta, jobs, rewards, advantages, policy_nll, ref_nll,
                         checkpoints, hung, fresh, used, calls>>
       \/ Abort

\* lines 168-172 and the loop head 138: optimizer.step(), the running totals,
\* then the next step or, after steps_per_epoch steps, the end of the epoch
OptimizerStep ==
    /\ pc = "OptimizerStep"
    /\ UNCHANGED numbers
    /\ UNCHANGED <<policy_mode, ref_mode>>
    /\ \/ /\ policy_params' = policy_params + 1
          /\ step' = step + 1
          /\ pc' = IF step + 1 < steps_per_epoch THEN "Sampling" ELSE "Checkpointing"
          /\ UNCHANGED <<epoch, gen_seqs, i, rewards_list, fasta, jobs, rewards,
                         advantages, policy_nll, ref_nll, grads, checkpoints, hung,
                         fresh, used, calls>>
       \/ Abort

\* lines 174-181 and the loop head 130: the epoch's checkpoint, then the next
\* epoch or the end of main
Checkpoint ==
    /\ pc = "Checkpointing"
    /\ UNCHANGED numbers
    /\ checkpoints' = {c \in checkpoints : c[1] # CheckpointDir(epoch)}
                          \cup {<<CheckpointDir(epoch), policy_params>>}
    /\ epoch' = epoch + 1
    /\ step' = 0
    /\ pc' = IF epoch + 1 < rl_epochs THEN "Sampling" ELSE "Done"
    /\ UNCHANGED <<policy_params, policy_mode, ref_mode, gen_seqs, i, rewards_list,
                   fasta, jobs, rewards, advantages, policy_nll, ref_nll, grads,
                   hung, fresh, used, calls>>

Next ==
    \/ Sample
    \/ GetRewardEnter
    \/ ScoreWrite
    \/ PredictorReturns
    \/ PredictorHangs
    \/ ReturnRewards
    \/ ComputeAdvantages
    \/ PolicyNll
    \/ RefNll
    \/ ZeroGrad
    \/ Backward
    \/ OptimizerStep
    \/ Checkpoint

Spec == Init /\ [][Next]_vars

\* the process keeps running: the single thread takes whichever step is next
\* (weak fairness of every step; at most the two predictor steps are enabled
\* together)
Fairness ==
    /\ WF_vars(Sample)
    /\ WF_vars(GetRewardEnter)
    /\ WF_vars(ScoreWrite)
    /\ WF_vars(PredictorReturns)
    /\ WF_vars(PredictorHangs)
    /\ WF_vars(ReturnRewards)
    /\ WF_vars(ComputeAdvantages)
    /\ WF_vars(PolicyNll)
    /\ WF_vars(RefNll)
    /\ WF_vars(ZeroGrad)
    /\ WF_vars(Backward)
    /\ WF_vars(OptimizerStep)
    /\ WF_vars(Checkpoint)

FairSpec == Init /\ [][Next]_vars /\ Fairness

----------------------------------------------------------------------------
(* The likelihood evaluator (calculate_nll, lines 72-86) and the loss      *)
(* (grpo_loss, lines 88-91).                                               *)

\* the tokenizer's alphabet as far as the evaluator needs it: residues, the
\* mask symbol and the pad symbol
Residues == {"A", "C"}
Alphabet == <<"A", "C", "#", "!">>
TokenId(c) == CHOOSE t \in 0 .. (Len(Alphabet) - 1) : Alphabet[t + 1] = c
mask_id == TokenId("#")
pad_id == TokenId("!")

\* line 75: tokenizer.tokenizeMSA(s), one id per character
Tokenize(s) == [p \in 1 .. Len(s) |-> TokenId(s[p])]

RECURSIVE MaxLenOf(_)
MaxLenOf(list) ==
    IF list = <<>> THEN 0
    ELSE LET m == MaxLenOf(Tail(list))
         IN IF Len(Head(list)) > m THEN Len(Head(list)) ELSE m

\* line 76: pad_sequence(..., batch_first=True, padding_value=pad): right-padding
\* to the longest row
PadSequence(list, pad) ==
    [b \in 1 .. Len(list) |->
        [p \in 1 .. MaxLenOf(list) |->
            IF p <= Len(list[b]) THEN list[b][p] ELSE pad]]

\* line 77: every position of the input is the mask symbol
MaskedInput(batch) == [b \in DOMAIN batch |-> [p \in DOMAIN batch[b] |-> mask_id]]

\* line 78
Lengths(seqs) == [b \in 1 .. Len(seqs) |-> Len(seqs[b])]

\* lines 80, 82: the cross-entropy of the network's logits at row position p
\* against a target token. The network is external; it stands here as a
\* function of what it is given: its parameters, its mode, the all-mask input
\* (so only the input's shape) and the row's length. Inside a row's true
\* length the value depends on the row alone; beyond it the value depends on
\* the padded width. In train mode a network with stochastic layers (dropout)
\* adds its perturbation net.drop; in eval mode it adds none.
CrossEntropy(net, input, len, p, target) ==
    IF p <= len
    THEN 1 + ((3 * target + 2 * p + len + 5 * net.params) % 7)
           + (IF net.mode = "train" THEN net.drop ELSE 0)
    ELSE 1 + ((Len(input[1]) + p + target) % 3)

\* lines 73, 82: CrossEntropyLoss(reduction='none', ignore_index=pad_id)
LossPerToken(net, batch, lengths, b, p) ==
    IF batch[b][p] = pad_id THEN 0
    ELSE CrossEntropy(net, MaskedInput(batch), lengths[b], p, batch[b][p])

\* line 83: mask = (tokenized_batch != pad_id)
Mask(batch, b, p) == IF batch[b][p] # pad_id THEN 1 ELSE 0

\* line 84: (loss_per_token * mask).sum(dim=1), for row b
NllUnmasked(net, batch, lengths, b) ==
    SumSeq([p \in 1 .. Len(batch[b]) |->
               CrossEntropy(net, MaskedInput(batch), lengths[b], p, batch[b][p])])
NllPerSequence(net, batch, lengths, b) ==
    SumSeq([p \in 1 .. Len(batch[b]) |->
               LossPerToken(net, batch, lengths, b, p) * Mask(batch, b, p)])

\* calculate_nll(model, tokenizer, sequences, device)
CalculateNll(net, seqs) ==
    LET tokenized_list == [b \in 1 .. Len(seqs) |-> Tokenize(seqs[b])]
        tokenized_batch == PadSequence(tokenized_list, pad_id)
        lengths == Lengths(seqs)
    IN [b \in 1 .. Len(seqs) |-> NllPerSequence(net, tokenized_batch, lengths, b)]

\* kl_beta = 0.1 (line 18), in tenths
kl_beta == 1

AllFin(t) == \A k \in DOMAIN t : t[k].k = "fin"

\* grpo_loss: policy_objective = -(advantages * log_ratios).mean(),
\* kl_penalty = kl_beta * log_ratios.mean(); both times 1000 (advantages are
\* times 100, beta is in tenths)
GrpoLoss(lr, adv, beta) ==
    [policy_objective |->
        IF AllFin(adv)
        THEN Fin(-RoundDiv(10 * SumSeq([k \in 1 .. Len(lr) |-> adv[k].v * lr[k]]),
                           Len(lr)))
        ELSE NaN,
     kl_penalty |-> RoundDiv(100 * beta * SumSeq(lr), Len(lr))]

----------------------------------------------------------------------------
(* One step in numbers: lines 152-166 on a given batch and its rewards.    *)

\* bounds of the batches and rewards tried
MaxBatch == 4
MaxNllBatch == 2
MaxLen == 2

RewardValues == {1, 2, 3, 4, Sentinel}

SeqsUpTo(n) == UNION {[1 .. l -> Residues] : l \in 1 .. n}

\* the step starts after get_reward has returned. Either the rewards range
\* over all batches of up to MaxBatch values and the sequences are equal, or
\* the sequences range over all batches of up to MaxNllBatch sequences of up to
\* MaxLen residues. The policy is the pretrained one (0 optimizer steps, the
\* reference's parameters) or has been updated.
StepInit ==
    /\ pc = "Advantage"
    /\ epoch = 0
    /\ step = 0
    /\ policy_params \in {0, 1}
    /\ policy_mode = "eval"
    /\ ref_mode = "eval"
    /\ gen_seqs = 1
    /\ i = 0
    /\ rewards_list = <<>>
    /\ fasta = [f \in AllFastaPaths |-> "absent"]
    /\ jobs = [d \in AllJobDirs |-> NoFiles]
    /\ \E n \in 1 .. MaxBatch :
          \/ /\ rewards \in {[batch |-> 1, v |-> r] : r \in [1 .. n -> RewardValues]}
             /\ sequences = [b \in 1 .. n |-> <<"A">>]
          \/ /\ n <= MaxNllBatch
             /\ sequences \in [1 .. n -> SeqsUpTo(MaxLen)]
             /\ rewards = [batch |-> 1, v |-> [b \in 1 .. n |-> b]]
    /\ advantages = NoTensor
    /\ policy_nll = NoNll
    /\ ref_nll = NoNll
    /\ grads = NoGrads
    /\ checkpoints = {}
    /\ hung = FALSE
    /\ fresh = {}
    /\ used = {}
    /\ calls = <<>>
    /\ log_ratios = <<>>
    /\ loss = NoLoss

run == <<epoch, step, policy_params, gen_seqs, i, rewards_list, fasta, jobs, rewards,
         grads, checkpoints, hung, fresh, used, calls, sequences>>

\* lines 155-156: policy_model.train(); calculate_nll(policy_model, ...)
EvalPolicy ==
    /\ pc = "PolicyNll"
    /\ sequences # <<>>
    /\ policy_mode' = "train"
    /\ \E d \in {0, 1} :
          policy_nll' = [batch |-> gen_seqs, params |-> policy_params, mode |-> "train",
                         drop |-> d,
                         v |-> CalculateNll([params |-> policy_params,
                                             mode |-> "train", drop |-> d],
                                            sequences)]
    /\ pc' = "RefNll"
    /\ UNCHANGED <<run, ref_mode, advantages, ref_nll, log_ratios, loss>>

\* lines 158-159: calculate_nll(ref_model, ...); ref_model is in eval mode and
\* holds the pretrained parameters
EvalRef ==
    /\ pc = "RefNll"
    /\ sequences # <<>>
    /\ \E d \in {0, 1} :
          ref_nll' = [batch |-> gen_seqs, params |-> 0, mode |-> ref_mode, drop |-> d,
                      v |-> CalculateNll([params |-> 0, mode |-> ref_mode, drop |-> d],
                                         sequences)]
    /\ pc' = "LogRatios"
    /\ UNCHANGED <<run, policy_mode, ref_mode, advantages, policy_nll, log_ratios,
                   loss>>

\* lines 161-163
ComputeLogRatios ==
    /\ pc = "LogRatios"
    /\ log_ratios' = [b \in 1 .. Len(sequences) |->
                         (-policy_nll.v[b]) - (-ref_nll.v[b])]
    /\ pc' = "Loss"
    /\ UNCHANGED <<run, policy_mode, ref_mode, advantages, policy_nll, ref_nll, loss>>

\* line 166
ComputeLoss ==
    /\ pc = "Loss"
    /\ loss' = GrpoLoss(log_ratios, advantages.v, kl_beta)
    /\ pc' = "Done"
    /\ UNCHANGED <<run, policy_mode, ref_mode, advantages, policy_nll, ref_nll,
                   log_ratios>>

StepNext ==
    \/ ComputeAdvantages
    \/ EvalPolicy
    \/ EvalRef
    \/ ComputeLogRatios
    \/ ComputeLoss

StepSpec == StepInit /\ [][StepNext]_vars

----------------------------------------------------------------------------
(* Properties of the run.                                                  *)

Range(f) == {f[x] : x \in DOMAIN f}

\* the output directory of index k in the get_reward call of the current step
CurrentJobDir(k) == JobDir(OutputRoot(epoch, step), k)

\* the predictor left parsable output for index k in the current call
ScoredNow(k) == CurrentJobDir(k) \in fresh /\ jobs[CurrentJobDir(k)].kind = "good"

\* C1: when get_reward returns, in any step, there is one reward per sequence;
\* the reward of an index for which the predictor left no output files or
\* corrupt ones in this call is the sentinel, and the reward of an index it
\* scored in this call is the value of this call's output.
C1_SentinelPerFailedIndex ==
    pc = "Advantage" =>
        /\ Len(rewards.v) = batch_size
        /\ \A k \in Indices :
              /\ ~ScoredNow(k) => rewards.v[k + 1] = Sentinel
              /\ ScoredNow(k) =>
                    rewards.v[k + 1] = jobs[CurrentJobDir(k)].iptm
                                         + jobs[CurrentJobDir(k)].plddt \div 10

\* C6: any two distinct (epoch, step, index) triples of a run have different
\* input artifact paths and different job directory paths.
C6_PathsNamespaced ==
    \A a, b \in used :
        <<a.e, a.s, a.k>> # <<b.e, b.s, b.k>> => a.fasta # b.fasta /\ a.job # b.job

\* the checkpoints of the first n epochs: one directory per epoch, named by
\* the 1-based epoch index, holding the parameters after n * steps_per_epoch
\* optimizer steps
CheckpointsOf(n) ==
    {<<(<<"evodiff_grpo_checkpoint_epoch", e>>), e * steps_per_epoch>> : e \in 1 .. n}

\* C5: after N completed epochs exactly N checkpoint directories exist, with
\* pairwise distinct names given by the epoch index; the checkpoint of epoch e
\* is written only after all steps of epoch e and holds the parameters after
\* e * steps_per_epoch optimizer steps.
C5_OneCheckpointPerEpoch ==
    /\ [](/\ checkpoints = CheckpointsOf(epoch)
          /\ Cardinality({c[1] : c \in checkpoints}) = epoch)
    /\ [][checkpoints' # checkpoints =>
            /\ step = steps_per_epoch
            /\ policy_params = (epoch + 1) * steps_per_epoch
            /\ epoch' = epoch + 1]_vars

C5_Witness ==
    pc = "Done" /\ epoch = rl_epochs /\ Cardinality(checkpoints) = rl_epochs

\* the order of the phases of a step, and of the steps and epochs
PhaseOrder ==
    {<<"Sampling", "GetReward">>, <<"GetReward", "Scoring">>,
     <<"Scoring", "Predictor">>, <<"Predictor", "Scoring">>,
     <<"Scoring", "Advantage">>, <<"Advantage", "PolicyNll">>,
     <<"PolicyNll", "RefNll">>, <<"RefNll", "ZeroGrad">>,
     <<"ZeroGrad", "Backward">>, <<"Backward", "OptimizerStep">>,
     <<"OptimizerStep", "Sampling">>, <<"OptimizerStep", "Checkpointing">>,
     <<"Checkpointing", "Sampling">>, <<"Checkpointing", "Done">>}

C9_FailureClasses ==
    /\ [][(pc = "Scoring" \/ pc = "Predictor") =>
            /\ pc' # "Aborted"
            /\ (i' # i => (i' = i + 1 /\ Len(rewards_list') = Len(rewards_list) + 1))]_vars
    /\ [][pc # "Aborted"]_vars
    /\ [][pc' = "Aborted" =>
            /\ pc \in {"Sampling", "GetReward", "PolicyNll", "RefNll", "Backward",
                        "OptimizerStep"}
            /\ checkpoints' = checkpoints
            /\ policy_params' = policy_params]_vars
    /\ [](pc = "Aborted" => epoch < rl_epochs /\ checkpoints = CheckpointsOf(epoch))

C9_Witness ==
    /\ pc = "Aborted"
    /\ epoch = 1
    /\ step = 1
    /\ Sentinel \in Range(rewards.v)
    /\ Cardinality(checkpoints) = 1

\* the predictor was invoked for every index, in index order
AllInvoked == calls = [k \in 1 .. batch_size |-> k - 1]

\* the predictor was invoked at most once per index, in index order
InvokedInOrder ==
    /\ Len(calls) <= batch_size
    /\ \A k \in 1 .. Len(calls) : calls[k] \in Indices
    /\ \A k \in 1 .. (Len(calls) - 1) : calls[k] < calls[k + 1]

\* unless a predictor call hangs or a fatal exception aborts the run, it reaches
\* Done with all epochs and all updates made
Terminates ==
    <>(\/ hung
       \/ pc = "Aborted"
       \/ /\ pc = "Done"
          /\ epoch = rl_epochs
          /\ policy_params = rl_epochs * steps_per_epoch)

Stalls ==
    /\ [](hung => pc = "Predictor")
    /\ [][hung => hung']_vars

\* C10 as stated: if every predictor call returns and nothing fatal happens the
\* run reaches Done after rl_epochs * steps_per_epoch updates, every step
\* having invoked the predictor batch_size times in index order; a predictor
\* call that never returns stalls the run in scoring.
C10_AsStated ==
    /\ Terminates
    /\ [](pc = "Advantage" => AllInvoked /\ Len(rewards.v) = batch_size)
    /\ Stalls

\* C10 amended: as above, but every step makes batch_size scoring iterations
\* in index order and invokes the predictor at most once per iteration (not
\* at all for a sequence whose input artifact could not be written).
C10_TerminatesAfterAllSteps ==
    /\ Terminates
    /\ [](pc = "Advantage" => InvokedInOrder /\ Len(rewards.v) = batch_size)
    /\ [](Len(rewards_list) <= batch_size /\ i <= batch_size)
    /\ Stalls

C10_Witness ==
    /\ pc = "Done"
    /\ policy_params = rl_epochs * steps_per_epoch
    /\ Sentinel \in Range(rewards.v)
    /\ Len(calls) < batch_size

----------------------------------------------------------------------------
(* Properties of one step's numbers (StepSpec).                            *)

\* rewards.std() in thousandths
Std1000(r) == RoundDiv(1000 * Std(r).v, Len(r) * Precision(SumSqN(r)))

Near(t, expected) ==
    /\ DOMAIN t = DOMAIN expected
    /\ \A k \in DOMAIN t : t[k].k = "fin" /\ Abs(t[k].v - expected[k]) <= 1

\* C2 as stated: for the rewards [1, 2, 3, 4] the step uses mean 2.5 and
\* standard deviation about 1.118 (the sum of squared deviations divided by
\* the batch size) and yields advantages about [-1.34, -0.45, 0.45, 1.34].
C2_AsStated ==
    (rewards.v = <<1, 2, 3, 4>> /\ advantages.batch # 0) =>
        /\ Mean100(rewards.v) = 250
        /\ Abs(Std1000(rewards.v) - 1118) <= 1
        /\ Near(advantages.v, <<-134, -45, 45, 134>>)

\* C2 amended: for the rewards [1, 2, 3, 4] the step uses mean 2.5 and
\* standard deviation about 1.291 (the sum of squared deviations divided by
\* the batch size minus one) and yields advantages about
\* [-1.16, -0.39, 0.39, 1.16].
C2_UnbiasedStd ==
    (rewards.v = <<1, 2, 3, 4>> /\ advantages.batch # 0) =>
        /\ Mean100(rewards.v) = 250
        /\ Abs(Std1000(rewards.v) - 1291) <= 1
        /\ Near(advantages.v, <<-116, -39, 39, 116>>)

C2_Witness ==
    rewards.v = <<1, 2, 3, 4>> /\ advantages.batch # 0 /\ pc = "Done"

Identical(r) == \A a, b \in DOMAIN r : r[a] = r[b]

C4_ZeroLogRatioAtSameParameters ==
    (policy_params = 0 /\ (pc = "Loss" \/ pc = "Done")) =>
        /\ \A b \in DOMAIN log_ratios : log_ratios[b] = 0
        /\ pc = "Done" => loss.kl_penalty = 0

NetOf(n) == [params |-> n.params, mode |-> n.mode, drop |-> n.drop]

\* the sum of the per-position cross-entropy over the positions of s
TruePositionsSum(net, s) ==
    SumSeq([p \in 1 .. Len(s) |->
               CrossEntropy(net, <<[q \in 1 .. Len(s) |-> mask_id]>>, Len(s), p,
                            TokenId(s[p]))])

\* C7: the NLL calculate_nll returns for a sequence of a batch is the sum of
\* the per-position cross-entropy over the sequence's own positions, the
\* padded positions adding 0, and equals the NLL of the sequence evaluated
\* alone.
C7_PaddingInvariant ==
    \A n \in {policy_nll, ref_nll} :
        n.v # <<>> =>
            \A b \in DOMAIN n.v :
                /\ n.v[b] = TruePositionsSum(NetOf(n), sequences[b])
                /\ n.v[b] = CalculateNll(NetOf(n), <<sequences[b]>>)[1]

C7_Witness ==
    /\ pc = "Done"
    /\ Len(sequences) = 2
    /\ Len(sequences[1]) < Len(sequences[2])
    /\ policy_nll.v # <<>>

====
